---- MODULE Spec2Model ----
(***************************************************************************)
(* The NHTSA complaints pipeline of src/lambda_train.py: lambda_handler    *)
(* fetches the makes of a model year, the models of each make, the         *)
(* complaints and the recalls of each model, aggregates them into one      *)
(* table of counts per (make, model), stores the table and submits a       *)
(* training job.                                                           *)
(*                                                                         *)
(* Every network call is two steps, the request and its response, so that  *)
(* the order and the number of requests are visible.  The upstream source  *)
(* is a function of the URL: the answer to a URL is chosen when the URL is *)
(* first requested and is the same whenever it is requested again.         *)
(***************************************************************************)
EXTENDS Integers, Sequences, FiniteSets, TLC

VARIABLES
    stage,          \* where lambda_handler is (the stages of the driver)
    error,          \* the exception that ended the run, "none" while there is none
    inflight,       \* the requests sent whose response has not been received
    log,            \* every call made to a collaborator so far, in order
    idx,            \* position of the running fetch loop in its input
    taxSrc,         \* upstream: the answer to the makes URL
    modelsSrc,      \* upstream: the answer to the models URL of each make
    complaintsSrc,  \* upstream: the answer to the complaints URL of each vehicle
    recallsSrc,     \* upstream: the answer to the recalls URL of each vehicle
    makes_list,     \* lambda_handler's makes_list
    models_df,      \* fetch_models' models, then lambda_handler's models_df
    complaints_df,  \* fetch_complaints' complaints, then complaints_df
    recalls_df,     \* fetch_recalls' recalls, then recalls_df
    merged_data,    \* lambda_handler's merged_data
    result          \* what lambda_handler returned, <<>> while it has not

vars == <<stage, error, inflight, log, idx, taxSrc, modelsSrc, complaintsSrc,
          recallsSrc, makes_list, models_df, complaints_df, recalls_df,
          merged_data, result>>

----------------------------------------------------------------------------
(* Bounds of the upstream data. *)

\* The total number of entries in all the `results` lists the source serves.
MaxSourceEntries == 6

\* The makes and the model names the source knows: strings, never null.
Makes == {"A", "B"}
ModelNames == {"X", "Y"}

\* event.get('model_year', 2020)
model_year == 2020

\* The strings of the model in the order Python compares them.
Names == <<"A", "B", "X", "Y">>

----------------------------------------------------------------------------
(* Upstream responses.  "error" is a call that raises inside the fetch:    *)
(* requests.get fails, the body is not JSON, or an entry lacks a required  *)
(* field.  "noresults" is a JSON object without the `results` key.         *)

Unasked == [tag |-> "unasked", results |-> <<>>]
ErrorResponse == [tag |-> "error", results |-> <<>>]
NoResults == [tag |-> "noresults", results |-> <<>>]
Results(list) == [tag |-> "results", results |-> list]

SeqsUpTo(S, n) == UNION {[1..k -> S] : k \in 0..n}

\* The entries of the models response for a make: {modelYear, make, model}.
\* The source answers for the year and the make it was asked for.
ModelEntries(make) == [modelYear : {model_year}, make : {make}, model : ModelNames]

\* A complaints or recalls response with n entries; an entry is its id
\* (odiNumber, NHTSACampaignNumber).
Entries(n) == [i \in 1..n |-> i]

Pairs == Makes \X ModelNames

RECURSIVE SumOver(_, _)
SumOver(f, S) ==
    IF S = {} THEN 0
    ELSE LET x == CHOOSE y \in S : TRUE
         IN  Len(f[x].results) + SumOver(f, S \ {x})

\* The entries the source has served so far.
Served == Len(taxSrc.results) + SumOver(modelsSrc, Makes)
          + SumOver(complaintsSrc, Pairs) + SumOver(recallsSrc, Pairs)

Room == MaxSourceEntries - Served

\* The answers the source may give to a URL: the recorded one, or any one
\* that fits when the URL is asked for the first time.
Answers(recorded, lists) ==
    IF recorded.tag # "unasked" THEN {recorded}
    ELSE {ErrorResponse, NoResults} \cup {Results(l) : l \in lists}

----------------------------------------------------------------------------
(* Requests. *)

Request(kind, issueType, make, model) ==
    [kind |-> kind, issueType |-> issueType, make |-> make, model |-> model]

\* lambda_handler passes issue_type='c' to fetch_makes and to fetch_models.
issue_type == "c"

\* makes?modelYear={model_year}&issueType={issue_type}
MakesRequest == Request("makes", issue_type, "-", "-")
\* models?modelYear={model_year}&make={make}&issueType={issue_type}
ModelsRequest(make) == Request("models", issue_type, make, "-")
\* complaintsByVehicle?make={row['make']}&model={row['model']}&modelYear=...
ComplaintsRequest(row) == Request("complaints", "-", row.make, row.model)
\* recallsByVehicle?make={row['make']}&model={row['model']}&modelYear=...
RecallsRequest(row) == Request("recalls", "-", row.make, row.model)
PutRequest == Request("put", "-", "-", "-")
SubmitRequest == Request("submit", "-", "-", "-")

\* A loop that asks again when the response lacks `results`.
NextIndex_Retry(i, resp) == IF resp.tag = "noresults" THEN i ELSE i + 1

\* A `for` loop goes on to its next item whatever the response was.
NextIndex(i, resp) == i + 1

Idle == inflight = {}

Send(req) ==
    /\ Idle
    /\ inflight' = {req}
    /\ log' = Append(log, req)

Fail(exc) ==
    /\ stage' = "Failed"
    /\ error' = exc

----------------------------------------------------------------------------
Init ==
    /\ stage = "NotStarted"
    /\ error = "none"
    /\ inflight = {}
    /\ log = <<>>
    /\ idx = 1
    /\ taxSrc = Unasked
    /\ modelsSrc = [m \in Makes |-> Unasked]
    /\ complaintsSrc = [p \in Pairs |-> Unasked]
    /\ recallsSrc = [p \in Pairs |-> Unasked]
    /\ makes_list = <<>>
    /\ models_df = <<>>
    /\ complaints_df = <<>>
    /\ recalls_df = <<>>
    /\ merged_data = <<>>
    /\ result = <<>>

\* lambda_handler is invoked: clients and parameters, up to the first fetch.
Start ==
    /\ stage = "NotStarted"
    /\ stage' = "FetchingTaxonomy"
    /\ UNCHANGED <<error, inflight, log, idx, taxSrc, modelsSrc, complaintsSrc,
                   recallsSrc, makes_list, models_df, complaints_df,
                   recalls_df, merged_data, result>>

----------------------------------------------------------------------------
(* fetch_makes *)

FetchMakesSend ==
    /\ stage = "FetchingTaxonomy"
    /\ MakesRequest \notin inflight
    /\ Send(MakesRequest)
    /\ UNCHANGED <<stage, error, idx, taxSrc, modelsSrc, complaintsSrc,
                   recallsSrc, makes_list, models_df, complaints_df,
                   recalls_df, merged_data, result>>

\* [make['make'] for make in makes_data['results']]
MakesOf(results) == [i \in 1..Len(results) |-> results[i]]

\* fetch_makes tolerating a response without `results`, as the other
\* fetchers do.
FetchMakesReturn_Tolerant(resp) ==
    /\ IF resp.tag = "error" THEN
            /\ Fail("RequestError")
            /\ UNCHANGED <<makes_list, idx>>
       ELSE /\ makes_list' = MakesOf(resp.results)
            /\ stage' = "EnumeratingModels"
            /\ idx' = 1
            /\ UNCHANGED error

\* What fetch_makes does with the response: raise, or return the list.
FetchMakesReturn(resp) ==
    /\ IF resp.tag = "error" THEN
            /\ Fail("RequestError")
            /\ UNCHANGED <<makes_list, idx>>
       ELSE IF resp.tag = "noresults" THEN
            /\ Fail("ValueError")
            /\ UNCHANGED <<makes_list, idx>>
       ELSE /\ makes_list' = MakesOf(resp.results)
            /\ stage' = "EnumeratingModels"
            /\ idx' = 1
            /\ UNCHANGED error

FetchMakesRecv ==
    /\ stage = "FetchingTaxonomy"
    /\ inflight = {MakesRequest}
    /\ \E resp \in Answers(taxSrc, SeqsUpTo(Makes, Room)) :
        /\ taxSrc' = resp
        /\ FetchMakesReturn(resp)
    /\ inflight' = {}
    /\ UNCHANGED <<log, modelsSrc, complaintsSrc, recallsSrc, models_df,
                   complaints_df, recalls_df, merged_data, result>>

----------------------------------------------------------------------------
(* fetch_models *)

FetchModelsSend ==
    /\ stage = "EnumeratingModels"
    /\ idx <= Len(makes_list)
    /\ Send(ModelsRequest(makes_list[idx]))
    /\ UNCHANGED <<stage, error, idx, taxSrc, modelsSrc, complaintsSrc,
                   recallsSrc, makes_list, models_df, complaints_df,
                   recalls_df, merged_data, result>>

\* {'modelYear': model['modelYear'], 'make': model['make'], 'model': model['model']}
ModelRecord(model) ==
    [modelYear |-> model.modelYear, make |-> model.make, model |-> model.model]

ModelRecords(results) == [i \in 1..Len(results) |-> ModelRecord(results[i])]

\* A loop body that starts the list again on a response without `results`.
ModelsExtend_ResetOnGap(models, resp) ==
    IF resp.tag = "results" THEN models \o ModelRecords(resp.results) ELSE <<>>

\* One pass of the loop body after the response: extend on `results`, skip
\* a response without it.
ModelsExtend(models, resp) ==
    IF resp.tag = "results" THEN models \o ModelRecords(resp.results) ELSE models

FetchModelsRecv ==
    /\ stage = "EnumeratingModels"
    /\ idx <= Len(makes_list)
    /\ inflight = {ModelsRequest(makes_list[idx])}
    /\ \E resp \in Answers(modelsSrc[makes_list[idx]],
                           SeqsUpTo(ModelEntries(makes_list[idx]), Room)) :
        /\ modelsSrc' = [modelsSrc EXCEPT ![makes_list[idx]] = resp]
        /\ IF resp.tag = "error" THEN
                /\ Fail("RequestError")
                /\ UNCHANGED <<models_df, idx>>
           ELSE /\ models_df' = ModelsExtend(models_df, resp)
                /\ idx' = NextIndex(idx, resp)
                /\ UNCHANGED <<stage, error>>
    /\ inflight' = {}
    /\ UNCHANGED <<log, taxSrc, complaintsSrc, recallsSrc, makes_list,
                   complaints_df, recalls_df, merged_data, result>>

\* The loop is over: return pd.DataFrame(models).
FetchModelsReturn ==
    /\ stage = "EnumeratingModels"
    /\ idx > Len(makes_list)
    /\ Idle
    /\ stage' = "FetchingComplaints"
    /\ idx' = 1
    /\ UNCHANGED <<error, inflight, log, taxSrc, modelsSrc, complaintsSrc,
                   recallsSrc, makes_list, models_df, complaints_df,
                   recalls_df, merged_data, result>>

----------------------------------------------------------------------------
(* fetch_complaints *)

RowKey(row) == <<row.make, row.model>>

FetchComplaintsSend ==
    /\ stage = "FetchingComplaints"
    /\ idx <= Len(models_df)
    /\ Send(ComplaintsRequest(models_df[idx]))
    /\ UNCHANGED <<stage, error, idx, taxSrc, modelsSrc, complaintsSrc,
                   recallsSrc, makes_list, models_df, complaints_df,
                   recalls_df, merged_data, result>>

\* {'make': row['make'], 'model': row['model'], 'modelYear': row['modelYear'],
\*  'odiNumber': complaint['odiNumber'], ...}
ComplaintRecord(row, complaint) ==
    [make |-> row.make, model |-> row.model, modelYear |-> row.modelYear,
     id |-> complaint]

ComplaintsExtend(complaints, row, resp) ==
    IF resp.tag = "results"
    THEN complaints \o [i \in 1..Len(resp.results) |->
                            ComplaintRecord(row, resp.results[i])]
    ELSE complaints

FetchComplaintsRecv ==
    /\ stage = "FetchingComplaints"
    /\ idx <= Len(models_df)
    /\ inflight = {ComplaintsRequest(models_df[idx])}
    /\ \E resp \in Answers(complaintsSrc[RowKey(models_df[idx])],
                           {Entries(n) : n \in 0..Room}) :
        /\ complaintsSrc' = [complaintsSrc EXCEPT ![RowKey(models_df[idx])] = resp]
        /\ IF resp.tag = "error" THEN
                /\ Fail("RequestError")
                /\ UNCHANGED <<complaints_df, idx>>
           ELSE /\ complaints_df' = ComplaintsExtend(complaints_df, models_df[idx], resp)
                /\ idx' = NextIndex(idx, resp)
                /\ UNCHANGED <<stage, error>>
    /\ inflight' = {}
    /\ UNCHANGED <<log, taxSrc, modelsSrc, recallsSrc, makes_list, models_df,
                   recalls_df, merged_data, result>>

\* The loop is over: return pd.DataFrame(complaints).
FetchComplaintsReturn ==
    /\ stage = "FetchingComplaints"
    /\ idx > Len(models_df)
    /\ Idle
    /\ stage' = "FetchingRecalls"
    /\ idx' = 1
    /\ UNCHANGED <<error, inflight, log, taxSrc, modelsSrc, complaintsSrc,
                   recallsSrc, makes_list, models_df, complaints_df,
                   recalls_df, merged_data, result>>

----------------------------------------------------------------------------
(* fetch_recalls *)

FetchRecallsSend ==
    /\ stage = "FetchingRecalls"
    /\ idx <= Len(models_df)
    /\ Send(RecallsRequest(models_df[idx]))
    /\ UNCHANGED <<stage, error, idx, taxSrc, modelsSrc, complaintsSrc,
                   recallsSrc, makes_list, models_df, complaints_df,
                   recalls_df, merged_data, result>>

\* A recall record with the make and model columns filled from the wrong
\* fields.
RecallRecord_Swapped(row, recall) ==
    [make |-> row.model, model |-> row.make, modelYear |-> row.modelYear,
     id |-> recall]

\* {'make': row['make'], 'model': row['model'], 'modelYear': row['modelYear'],
\*  'NHTSACampaignNumber': recall['NHTSACampaignNumber'], ...}
RecallRecord(row, recall) ==
    [make |-> row.make, model |-> row.model, modelYear |-> row.modelYear,
     id |-> recall]

RecallsExtend(recalls, row, resp) ==
    IF resp.tag = "results"
    THEN recalls \o [i \in 1..Len(resp.results) |->
                        RecallRecord(row, resp.results[i])]
    ELSE recalls

FetchRecallsRecv ==
    /\ stage = "FetchingRecalls"
    /\ idx <= Len(models_df)
    /\ inflight = {RecallsRequest(models_df[idx])}
    /\ \E resp \in Answers(recallsSrc[RowKey(models_df[idx])],
                           {Entries(n) : n \in 0..Room}) :
        /\ recallsSrc' = [recallsSrc EXCEPT ![RowKey(models_df[idx])] = resp]
        /\ IF resp.tag = "error" THEN
                /\ Fail("RequestError")
                /\ UNCHANGED <<recalls_df, idx>>
           ELSE /\ recalls_df' = RecallsExtend(recalls_df, models_df[idx], resp)
                /\ idx' = NextIndex(idx, resp)
                /\ UNCHANGED <<stage, error>>
    /\ inflight' = {}
    /\ UNCHANGED <<log, taxSrc, modelsSrc, complaintsSrc, makes_list, models_df,
                   complaints_df, merged_data, result>>

\* The loop is over: return pd.DataFrame(recalls).
FetchRecallsReturn ==
    /\ stage = "FetchingRecalls"
    /\ idx > Len(models_df)
    /\ Idle
    /\ stage' = "Aggregating"
    /\ idx' = 1
    /\ UNCHANGED <<error, inflight, log, taxSrc, modelsSrc, complaintsSrc,
                   recallsSrc, makes_list, models_df, complaints_df,
                   recalls_df, merged_data, result>>

----------------------------------------------------------------------------
(* The transformations of lambda_handler: groupby, size, merge, fillna. *)

Rank(s) == CHOOSE i \in 1..Len(Names) : Names[i] = s

\* Python's order on the (make, model) keys.
KeyLess(k1, k2) ==
    \/ Rank(k1[1]) < Rank(k2[1])
    \/ k1[1] = k2[1] /\ Rank(k1[2]) < Rank(k2[2])

RECURSIVE SortedKeys(_)
SortedKeys(S) ==
    IF S = {} THEN <<>>
    ELSE LET least == CHOOSE k \in S : \A other \in S \ {k} : KeyLess(k, other)
         IN  <<least>> \o SortedKeys(S \ {least})

KeysOf(df) == {RowKey(df[i]) : i \in DOMAIN df}

\* pd.DataFrame([]) has no columns at all.
HasColumns(df) == df # <<>>

\* A grouping that leaves the first row of the frame out.
GroupBySize_SkipFirst(df) ==
    LET rest == Tail(df)
        keys == SortedKeys(KeysOf(rest))
    IN  [i \in 1..Len(keys) |->
            [make |-> keys[i][1], model |-> keys[i][2],
             size |-> Cardinality({j \in DOMAIN rest : RowKey(rest[j]) = keys[i]})]]

\* df.groupby(['make', 'model']).size().reset_index(name=...): one row per
\* key, in key order, with the number of rows of df that have the key.
GroupBySize(df) ==
    LET keys == SortedKeys(KeysOf(df))
    IN  [i \in 1..Len(keys) |->
            [make |-> keys[i][1], model |-> keys[i][2],
             size |-> Cardinality({j \in DOMAIN df : RowKey(df[j]) = keys[i]})]]

Matching(table, key) == SelectSeq(table, LAMBDA r : RowKey(r) = key)

\* The rows of an outer merge for one key: the pairs of matching rows, a
\* missing side being NaN (the empty cell <<>>).
MergedRows(lrows, rrows, key) ==
    IF lrows = <<>> THEN
        [j \in 1..Len(rrows) |->
            [make |-> key[1], model |-> key[2],
             complaints_count |-> <<>>, recalls_count |-> <<rrows[j].size>>]]
    ELSE IF rrows = <<>> THEN
        [i \in 1..Len(lrows) |->
            [make |-> key[1], model |-> key[2],
             complaints_count |-> <<lrows[i].size>>, recalls_count |-> <<>>]]
    ELSE
        [n \in 1..(Len(lrows) * Len(rrows)) |->
            [make |-> key[1], model |-> key[2],
             complaints_count |-> <<lrows[((n - 1) \div Len(rrows)) + 1].size>>,
             recalls_count |-> <<rrows[((n - 1) % Len(rrows)) + 1].size>>]]

RECURSIVE MergeKeys(_, _, _)
MergeKeys(left, right, keys) ==
    IF keys = <<>> THEN <<>>
    ELSE MergedRows(Matching(left, Head(keys)), Matching(right, Head(keys)), Head(keys))
         \o MergeKeys(left, right, Tail(keys))

\* pd.merge(left, right, on=['make', 'model'], how='outer')
MergeOuter(left, right) ==
    MergeKeys(left, right, SortedKeys(KeysOf(left) \cup KeysOf(right)))

FillCell(cell) == IF cell = <<>> THEN 0 ELSE cell[1]

\* .fillna(0)
FillNa(table) ==
    [i \in 1..Len(table) |->
        [make |-> table[i].make, model |-> table[i].model,
         complaints_count |-> FillCell(table[i].complaints_count),
         recalls_count |-> FillCell(table[i].recalls_count)]]

\* The three statements as a function of the two frames: the table, or the
\* KeyError of a groupby on a frame without the 'make' column.
Transform(complaints, recalls) ==
    IF HasColumns(complaints) /\ HasColumns(recalls)
    THEN [raised |-> FALSE,
          table |-> FillNa(MergeOuter(GroupBySize(complaints), GroupBySize(recalls)))]
    ELSE [raised |-> TRUE, table |-> <<>>]

Aggregate ==
    /\ stage = "Aggregating"
    /\ LET out == Transform(complaints_df, recalls_df)
       IN  IF out.raised THEN
                /\ Fail("KeyError")
                /\ UNCHANGED merged_data
           ELSE /\ merged_data' = out.table
                /\ stage' = "Persisting"
                /\ UNCHANGED error
    /\ UNCHANGED <<inflight, log, idx, taxSrc, modelsSrc, complaintsSrc,
                   recallsSrc, makes_list, models_df, complaints_df,
                   recalls_df, result>>

----------------------------------------------------------------------------
(* The collaborators: s3.put_object and sagemaker.create_training_job.     *)
(* Either call returns or raises: whether the client accepts the call as   *)
(* written (RoleArn is commented out) is the collaborator's business.      *)

\* A put whose failure is recorded but does not stop the run.
PutObject_ContinuesOnError ==
    /\ stage = "Persisting"
    /\ log' = Append(log, PutRequest)
    /\ stage' = "SubmittingJob"
    /\ \E ok \in BOOLEAN :
        error' = IF ok THEN error ELSE "ClientError"
    /\ UNCHANGED <<inflight, idx, taxSrc, modelsSrc, complaintsSrc, recallsSrc,
                   makes_list, models_df, complaints_df, recalls_df,
                   merged_data, result>>

PutObject ==
    /\ stage = "Persisting"
    /\ log' = Append(log, PutRequest)
    /\ \E ok \in BOOLEAN :
        IF ok THEN stage' = "SubmittingJob" /\ UNCHANGED error
        ELSE Fail("ClientError")
    /\ UNCHANGED <<inflight, idx, taxSrc, modelsSrc, complaintsSrc, recallsSrc,
                   makes_list, models_df, complaints_df, recalls_df,
                   merged_data, result>>

\* return {"statusCode": 200, "body": ...response['TrainingJobArn']...}
statusCode == 200

CreateTrainingJob ==
    /\ stage = "SubmittingJob"
    /\ log' = Append(log, SubmitRequest)
    /\ \E ok \in BOOLEAN :
        IF ok THEN /\ stage' = "Done"
                   /\ result' = <<[statusCode |-> statusCode, body |-> "TrainingJobArn"]>>
                   /\ UNCHANGED error
        ELSE /\ Fail("ClientError")
             /\ UNCHANGED result
    /\ UNCHANGED <<inflight, idx, taxSrc, modelsSrc, complaintsSrc, recallsSrc,
                   makes_list, models_df, complaints_df, recalls_df,
                   merged_data>>

----------------------------------------------------------------------------
Next ==
    \/ Start
    \/ FetchMakesSend
    \/ FetchMakesRecv
    \/ FetchModelsSend
    \/ FetchModelsRecv
    \/ FetchModelsReturn
    \/ FetchComplaintsSend
    \/ FetchComplaintsRecv
    \/ FetchComplaintsReturn
    \/ FetchRecallsSend
    \/ FetchRecallsRecv
    \/ FetchRecallsReturn
    \/ Aggregate
    \/ PutObject
    \/ CreateTrainingJob

Spec == Init /\ [][Next]_vars

----------------------------------------------------------------------------
(* Vocabulary of the properties. *)

Called(req) == \E i \in DOMAIN log : log[i] = req

Of(kind) == SelectSeq(log, LAMBDA r : r.kind = kind)

LastKind == IF log = <<>> THEN "-" ELSE log[Len(log)].kind

\* The transformations have completed and produced merged_data.
Aggregated == stage \in {"Persisting", "SubmittingJob", "Done"} \/ Called(PutRequest)

Count(df, key) == Cardinality({i \in DOMAIN df : RowKey(df[i]) = key})

RowsWith(table, key) == {i \in DOMAIN table : RowKey(table[i]) = key}

NoDuplicates(list) ==
    \A i, j \in DOMAIN list : i # j => list[i] # list[j]

\* table is the outer join of the counts of complaints and of recalls.
OuterJoinOf(table, complaints, recalls) ==
    /\ \A key \in KeysOf(complaints) \cup KeysOf(recalls) :
        /\ Cardinality(RowsWith(table, key)) = 1
        /\ \A i \in RowsWith(table, key) :
            /\ table[i].complaints_count = Count(complaints, key)
            /\ table[i].recalls_count = Count(recalls, key)
    /\ \A i \in DOMAIN table :
        RowKey(table[i]) \in KeysOf(complaints) \cup KeysOf(recalls)

\* Whenever the transformations produced a table, it is the outer join.
JoinCompleteWhenProduced ==
    Aggregated => OuterJoinOf(merged_data, complaints_df, recalls_df)

----------------------------------------------------------------------------
\* C1: for every pair of inputs, empty ones included, the aggregation step
\* yields exactly one row per (make, model) of either input, with the
\* number of complaint records and of recall records of that pair (0 for a
\* side the pair is absent from), and no other row.
C1_OuterJoinCompleteness ==
    /\ error # "KeyError"
    /\ JoinCompleteWhenProduced

----------------------------------------------------------------------------
StageSuccessor ==
    {<<"NotStarted", "FetchingTaxonomy">>,
     <<"FetchingTaxonomy", "EnumeratingModels">>,
     <<"EnumeratingModels", "FetchingComplaints">>,
     <<"FetchingComplaints", "FetchingRecalls">>,
     <<"FetchingRecalls", "Aggregating">>,
     <<"Aggregating", "Persisting">>,
     <<"Persisting", "SubmittingJob">>,
     <<"SubmittingJob", "Done">>}

NonTerminal == {pair[1] : pair \in StageSuccessor} \ {"NotStarted"}

StageStep ==
    /\ stage' # stage =>
        \/ <<stage, stage'>> \in StageSuccessor
        \/ stage \in NonTerminal /\ stage' = "Failed"
    /\ stage \in {"Failed", "Done"} => UNCHANGED vars

StageState ==
    /\ (error # "none") <=> (stage = "Failed")
    /\ Called(PutRequest) =>
        /\ merged_data # <<>>
        /\ merged_data = Transform(complaints_df, recalls_df).table
    /\ Len(Of("put")) <= 1 /\ Len(Of("submit")) <= 1
    /\ Called(SubmitRequest) =>
        /\ Called(PutRequest)
        /\ log[Len(log)] = SubmitRequest
        /\ log[Len(log) - 1] = PutRequest
    /\ (result # <<>>) <=> (stage = "Done")
    /\ stage = "Done" =>
        /\ Called(SubmitRequest)
        /\ result[1].statusCode = statusCode
    /\ stage \in {"Persisting", "SubmittingJob", "Done"} => merged_data # <<>>
    /\ stage \in {"SubmittingJob", "Done"} => Called(PutRequest)

\* C2: the stages of a run occur only in the order FetchingTaxonomy,
\* EnumeratingModels, FetchingComplaints, FetchingRecalls, Aggregating,
\* Persisting, SubmittingJob, Done; the put is attempted only after the
\* aggregation completed, the submission only after the put returned, the
\* result {statusCode: 200} only after the submission returned, and an error
\* in a stage leads to Failed, after which nothing more happens.
C2_StageOrdering == [][StageStep]_vars /\ []StageState

C2_Witness == stage = "Done" /\ result # <<>> /\ Len(merged_data) = 2

----------------------------------------------------------------------------
\* C3: when the makes response lacks `results`, fetch_makes raises, the run
\* is Failed, and the makes request is the only call the run ever makes.
C3_FatalTaxonomyFailure ==
    taxSrc.tag = "noresults" =>
        /\ stage = "Failed"
        /\ error = "ValueError"
        /\ log = <<MakesRequest>>
        /\ inflight = {}

C3_Witness == taxSrc.tag = "noresults" /\ stage = "Failed"

----------------------------------------------------------------------------
\* What the source reported for a make: nothing when the response lacks
\* `results`.
Reported(make) ==
    IF modelsSrc[make].tag = "results" THEN modelsSrc[make].results ELSE <<>>

RECURSIVE Contributions(_)
Contributions(n) ==
    IF n = 0 THEN <<>> ELSE Contributions(n - 1) \o Reported(makes_list[n])

RECURSIVE ReportedTotal(_)
ReportedTotal(n) ==
    IF n = 0 THEN 0 ELSE ReportedTotal(n - 1) + Len(Reported(makes_list[n]))

\* The entries of makes_list whose response fetch_models has handled.
ModelsDone ==
    IF stage = "EnumeratingModels" \/ (error = "RequestError" /\ LastKind = "models")
    THEN idx - 1
    ELSE Len(makes_list)

\* C4: in fetch_models a make whose response lacks `results` contributes no
\* ModelRecord and raises nothing, every other make contributes exactly the
\* ModelRecords of its own response, and the output is no longer than the
\* sum of the numbers of models reported for the makes.
C4_PartialFailureIsolation ==
    /\ models_df = Contributions(ModelsDone)
    /\ Len(models_df) <= ReportedTotal(Len(makes_list))
    /\ error = "RequestError" /\ LastKind = "models" =>
        modelsSrc[log[Len(log)].make].tag = "error"
    /\ error = "ValueError" => LastKind = "makes"

C4_Witness ==
    /\ stage = "FetchingComplaints"
    /\ Len(makes_list) = 3
    /\ modelsSrc[makes_list[1]].tag = "results"
    /\ modelsSrc[makes_list[2]].tag = "noresults"
    /\ makes_list[3] = makes_list[1]
    /\ Len(models_df) = 2

----------------------------------------------------------------------------
\* Some models, complaints or recalls response lacked `results`.
GapSeen ==
    \/ \E m \in Makes : modelsSrc[m].tag = "noresults"
    \/ \E p \in Pairs : complaintsSrc[p].tag = "noresults"
    \/ \E p \in Pairs : recallsSrc[p].tag = "noresults"

\* C5: once the taxonomy fetch succeeded, responses lacking `results` (for
\* any makes and models, all of them included) never move the run to Failed:
\* a run fails only on an error of a collaborator.
C5_GapsNeverFail ==
    stage = "Failed" /\ taxSrc.tag = "results" /\ GapSeen =>
        error \in {"RequestError", "ClientError"}

----------------------------------------------------------------------------
\* C6: for every makes response that contains `results`, fetch_makes
\* returns makes without duplicate entries.
C6_MakesNoDuplicates == taxSrc.tag = "results" => NoDuplicates(makes_list)

----------------------------------------------------------------------------
RowSet(table) == {table[i] : i \in DOMAIN table}

\* df without its first row equal to row.
RemoveOne(df, row) ==
    LET first == CHOOSE i \in DOMAIN df :
                    df[i] = row /\ \A j \in 1..(i - 1) : df[j] # row
    IN  SubSeq(df, 1, first - 1) \o SubSeq(df, first + 1, Len(df))

\* Every order in which the rows of df can be arranged.
RECURSIVE Rearrangements(_)
Rearrangements(df) ==
    IF df = <<>> THEN {<<>>}
    ELSE UNION {{<<row>> \o rest : rest \in Rearrangements(RemoveOne(df, row))} :
                    row \in RowSet(df)}

\* C7: aggregating the same complaint and recall records again, in any order
\* of the records of either input, yields the same set of FeatureRows.
C7_OrderInsensitive ==
    Aggregated =>
        \A complaints \in Rearrangements(complaints_df) :
            \A recalls \in Rearrangements(recalls_df) :
                LET out == Transform(complaints, recalls)
                IN  ~out.raised /\ RowSet(out.table) = RowSet(merged_data)

C7_Witness ==
    /\ Aggregated
    /\ Cardinality(KeysOf(complaints_df)) = 2
    /\ recalls_df # <<>>

----------------------------------------------------------------------------
IsPrefix(s, t) == Len(s) <= Len(t) /\ s = SubSeq(t, 1, Len(s))

KindRank(kind) ==
    CASE kind = "makes" -> 1
      [] kind = "models" -> 2
      [] kind = "complaints" -> 3
      [] kind = "recalls" -> 4
      [] kind = "put" -> 5
      [] kind = "submit" -> 6

Beyond(s) ==
    CASE s = "FetchingTaxonomy" ->
            {"EnumeratingModels", "FetchingComplaints", "FetchingRecalls",
             "Aggregating", "Persisting", "SubmittingJob", "Done"}
      [] s = "EnumeratingModels" ->
            {"FetchingComplaints", "FetchingRecalls", "Aggregating",
             "Persisting", "SubmittingJob", "Done"}
      [] s = "FetchingComplaints" ->
            {"FetchingRecalls", "Aggregating", "Persisting", "SubmittingJob", "Done"}
      [] s = "FetchingRecalls" ->
            {"Aggregating", "Persisting", "SubmittingJob", "Done"}

ModelsRequests == [i \in DOMAIN makes_list |-> ModelsRequest(makes_list[i])]
ComplaintsRequests == [i \in DOMAIN models_df |-> ComplaintsRequest(models_df[i])]
RecallsRequests == [i \in DOMAIN models_df |-> RecallsRequest(models_df[i])]

\* The response the source gave to a request.
ResponseTo(req) ==
    CASE req.kind = "makes" -> taxSrc
      [] req.kind = "models" -> modelsSrc[req.make]
      [] req.kind = "complaints" -> complaintsSrc[<<req.make, req.model>>]
      [] req.kind = "recalls" -> recallsSrc[<<req.make, req.model>>]

RequestDiscipline ==
    /\ Cardinality(inflight) <= 1
    /\ inflight # {} => log # <<>> /\ inflight = {log[Len(log)]}
    /\ \A i, j \in DOMAIN log : i < j => KindRank(log[i].kind) <= KindRank(log[j].kind)
    /\ IsPrefix(Of("makes"), <<MakesRequest>>)
    /\ IsPrefix(Of("models"), ModelsRequests)
    /\ IsPrefix(Of("complaints"), ComplaintsRequests)
    /\ IsPrefix(Of("recalls"), RecallsRequests)
    /\ stage \in Beyond("FetchingTaxonomy") => Of("makes") = <<MakesRequest>>
    /\ stage \in Beyond("EnumeratingModels") => Of("models") = ModelsRequests
    /\ stage \in Beyond("FetchingComplaints") => Of("complaints") = ComplaintsRequests
    /\ stage \in Beyond("FetchingRecalls") => Of("recalls") = RecallsRequests
    /\ error = "RequestError" => ResponseTo(log[Len(log)]).tag = "error"
    /\ error = "ValueError" => ResponseTo(log[Len(log)]).tag = "noresults"

NothingAfterFailure == stage = "Failed" => log' = log /\ inflight' = inflight

\* C8: a run issues one makes request, then one models request per entry of
\* the makes list, then one complaints request per ModelRecord, then one
\* recalls request per ModelRecord, each after the response to the previous
\* one, and re-issues no request after a response without `results` or
\* after an error.
C8_RequestDiscipline == []RequestDiscipline /\ [][NothingAfterFailure]_vars

C8_Witness ==
    /\ stage = "Done"
    /\ Len(makes_list) = 2
    /\ \E m \in Makes : modelsSrc[m].tag = "noresults"
    /\ \E p \in Pairs : complaintsSrc[p].tag = "noresults"
    /\ Len(Of("recalls")) = 2

----------------------------------------------------------------------------
\* C9: for each output FeatureRow, complaints_count is the number of entries
\* of the source's complaints response for that vehicle and recalls_count
\* the number of entries of its recalls response, also when a make or a
\* vehicle is listed more than once.
C9_CountsMatchSource ==
    Aggregated =>
        \A i \in DOMAIN merged_data :
            /\ merged_data[i].complaints_count
                 = Len(complaintsSrc[RowKey(merged_data[i])].results)
            /\ merged_data[i].recalls_count
                 = Len(recallsSrc[RowKey(merged_data[i])].results)

\* The counts are those of the source when no vehicle is enumerated twice.
CountsMatchSourceWithoutRepeats ==
    NoDuplicates(models_df) => C9_CountsMatchSource

----------------------------------------------------------------------------
\* C10: every FeatureRow's (make, model) is that of a ModelRecord that
\* fetch_models returned for issue type 'c'; complaints and recalls are
\* requested only for those ModelRecords and every record carries the make
\* and model of the ModelRecord it was requested for.
C10_RowsWithinEnumeration ==
    /\ \A i \in DOMAIN merged_data : RowKey(merged_data[i]) \in KeysOf(models_df)
    /\ \A i \in DOMAIN complaints_df : RowKey(complaints_df[i]) \in KeysOf(models_df)
    /\ \A i \in DOMAIN recalls_df : RowKey(recalls_df[i]) \in KeysOf(models_df)
    /\ \A i \in DOMAIN log :
        /\ log[i].kind \in {"makes", "models"} => log[i].issueType = "c"
        /\ log[i].kind \in {"complaints", "recalls"} =>
            <<log[i].make, log[i].model>> \in KeysOf(models_df)

C10_Witness ==
    /\ Aggregated
    /\ KeysOf(models_df) # Pairs
    /\ \E i \in DOMAIN merged_data :
        merged_data[i].recalls_count > 0 /\ merged_data[i].complaints_count = 0
====
